---- MODULE Spec2Model ----
(***************************************************************************)
(* Model of Assignment2/Part3/benchmark.py: the `benchmark` decorator      *)
(* (warmup rounds, measured rounds, csv output, statistics table) and the  *)
(* multi-threaded driver `test`.                                           *)
(*                                                                         *)
(* Spec        one decorated callable, invoked repeatedly by a caller.     *)
(* DriverSpec  test(f, test_iterations): four configurations, each an      *)
(*             `experiment` that starts and joins worker threads.          *)
(***************************************************************************)
EXTENDS Integers, Sequences, FiniteSets, TLC

VARIABLES
    warmups, iter, verbose, csv_file,   \* arguments of benchmark(...)
    pc,                                 \* position inside wrapper
    is_warmup, i, runs,                 \* start_runs: argument, loop index, list
    warmup_runs, execution_runs, all_runs,
    t1,                                 \* perf_counter() sample before the call
    fpc,                                \* position inside the wrapped callable
    exc,                                \* exception that left wrapper, if any
    clock,                              \* value perf_counter() returns
    fs,                                 \* file system: path -> file
    stdout,                             \* lines printed and not yet read
    mark,                               \* Len(stdout) when wrapper was entered
    started, opens, log, invocations,   \* history of the current invocation
    test_pc, test_iterations, cfg,      \* test(f, test_iterations)
    f_raises,                           \* the workload f: do its calls raise
    threads, k, j,                      \* experiment: Thread list, loop indexes
    cfg_calls, exp_raised, cfg_raised,  \* history of the calls of f
    cfg_log

config  == <<warmups, iter, verbose, csv_file>>
locals  == <<is_warmup, i, runs, warmup_runs, execution_runs, all_runs, t1>>
ghosts  == <<started, opens, log, invocations>>
driver  == <<test_pc, test_iterations, f_raises, cfg, threads, k, j, cfg_calls,
             exp_raised, cfg_raised, cfg_log>>
vars    == <<config, pc, locals, fpc, exc, clock, fs, stdout, mark, ghosts, driver>>

----------------------------------------------------------------------------
(* Bounds *)
MaxWarmups     == 2
MaxIter        == 3
MaxClock       == 2
MaxInvocations == 2
MaxStale       == 2
MaxTestIter    == 2

----------------------------------------------------------------------------
(* Values *)
None == <<>>                      \* csv_file=None
OutPath == <<"out.csv">>          \* a csv_file given by the caller of benchmark

\* str(x) of a small non-negative integer
Decimal ==
    <<"0", "1", "2", "3", "4", "5", "6", "7", "8", "9", "10", "11", "12",
      "13", "14", "15", "16", "17", "18", "19", "20">>
Str(n) == Decimal[n + 1]

\* str(b) of a bool
StrBool(b) == IF b THEN "True" ELSE "False"

RECURSIVE SumSeq(_)
SumSeq(s) == IF s = <<>> THEN 0 ELSE Head(s) + SumSeq(Tail(s))

RECURSIVE GCD(_, _)
GCD(a, b) == IF b = 0 THEN a ELSE GCD(b, a % b)

\* an exact fraction n/d, d > 0, in lowest terms
Rat(n, d) == LET g == GCD(n, d) IN <<n \div g, d \div g>>

StatisticsError == <<"StatisticsError">>

\* statistics.mean: at least one data point
Mean(xs) ==
    IF Len(xs) < 1 THEN StatisticsError ELSE Rat(SumSeq(xs), Len(xs))

\* statistics.variance (sample variance): at least two data points
Variance(xs) ==
    IF Len(xs) < 2 THEN StatisticsError
    ELSE LET n  == Len(xs)
             s  == SumSeq(xs)
             ss == SumSeq([x \in 1..n |-> xs[x] * xs[x]])
         IN Rat(n * ss - s * s, n * (n - 1))

----------------------------------------------------------------------------
(* The csv file *)
CsvHeader == <<"run num", "is warmup", "timing">>
StaleLine == <<"stale", "stale", "stale">>
NoFile    == [exists |-> FALSE, lines |-> <<>>]
File(ls)  == [exists |-> TRUE, lines |-> ls]

\* ",".join(map(str, r)): the fields of one line
CsvRow(r) == <<Str(r[1]), StrBool(r[2]), Str(r[3])>>

\* what lines 53-55 write, in order
CsvLines(rs) == <<CsvHeader>> \o [x \in 1..Len(rs) |-> CsvRow(rs[x])]

\* open(csv_file, 'w'): the file is created or truncated
OpenAppend(f) == f.lines
OpenW(f) == <<>>

PriorFiles ==
    {NoFile} \cup {File([x \in 1..n |-> StaleLine]) : n \in 0..MaxStale}

----------------------------------------------------------------------------
(* start_runs *)
\* the two calls of start_runs: (warmups, True, ...) then (iter, False, ...)
PhaseCountSwapped(w) == IF w THEN iter ELSE warmups
PhaseCount(w) == IF w THEN warmups ELSE iter

Title(w) == IF w THEN "Warmup round" ELSE "Execution round"

\* runs.append((i + 1, is_warmup, execution_time))
RunRecordZeroBased(d) == <<i, is_warmup, d>>
RunRecord(d) == <<i + 1, is_warmup, d>>

VerboseLine(d) == <<Title(is_warmup), Str(i + 1), Str(PhaseCount(is_warmup)), Str(d)>>

\* all_runs = warmup_runs + execution_runs
ConcatReversed(w, e) == e \o w
Concat(w, e) == w \o e

----------------------------------------------------------------------------
(* The statistics table *)
TableHeader == <<"is_warmup", "rounds", "mean", "variance">>

Times(rs) == [x \in 1..Len(rs) |-> rs[x][3]]

\* len(times) > 1
HasRowNonEmpty(times) == Len(times) > 0
HasRow(times) == Len(times) > 1

TableRow(w, times) == <<StrBool(w), Str(Len(times)), Mean(times), Variance(times)>>

Faults(row) == row[3] = StatisticsError \/ row[4] = StatisticsError

\* lines 63-67: the lines printed and whether statistics raised on the way
Table ==
    LET wt == Times(warmup_runs)
        et == Times(execution_runs)
        wr == IF HasRow(wt) THEN <<TableRow(TRUE, wt)>> ELSE <<>>
        er == IF HasRow(et) THEN <<TableRow(FALSE, et)>> ELSE <<>>
    IN  IF wr # <<>> /\ Faults(wr[1])
            THEN [lines |-> <<TableHeader>>, fault |-> TRUE]
        ELSE IF er # <<>> /\ Faults(er[1])
            THEN [lines |-> <<TableHeader>> \o wr, fault |-> TRUE]
        ELSE [lines |-> <<TableHeader>> \o wr \o er, fault |-> FALSE]

----------------------------------------------------------------------------
(* wrapper *)
Enter ==
    /\ pc' = "loop"
    /\ is_warmup' = TRUE
    /\ i' = 0
    /\ runs' = <<>>
    /\ warmup_runs' = <<>>
    /\ execution_runs' = <<>>
    /\ all_runs' = <<>>
    /\ t1' = 0
    /\ fpc' = "none"
    /\ exc' = "none"
    /\ mark' = Len(stdout')
    /\ started' = 0
    /\ opens' = 0
    /\ log' = <<>>
    /\ invocations' = invocations + 1

\* the caller of a decorated function calls it (again), having read what the
\* call before printed
Invoke ==
    /\ pc \in {"idle", "done", "raised"}
    /\ invocations < MaxInvocations
    /\ stdout' = <<>>
    /\ Enter
    /\ UNCHANGED <<config, clock, fs, driver>>

\* for i in range(n): t1 = time.perf_counter(); fun(*args, **kwargs)
LoopNext ==
    /\ pc = "loop"
    /\ i < PhaseCount(is_warmup)
    /\ t1' = clock
    /\ started' = started + 1
    /\ pc' = "fun"
    /\ fpc' = "body"
    /\ UNCHANGED <<config, is_warmup, i, runs, warmup_runs, execution_runs,
                   all_runs, exc, clock, fs, stdout, mark, opens, log,
                   invocations, driver>>

\* return runs, to line 44 or to lines 45-47
LoopEnd ==
    /\ pc = "loop"
    /\ i = PhaseCount(is_warmup)
    /\ IF is_warmup
          THEN /\ warmup_runs' = runs
               /\ is_warmup' = FALSE
               /\ pc' = "loop"
               /\ UNCHANGED <<execution_runs, all_runs>>
          ELSE /\ execution_runs' = runs
               /\ all_runs' = Concat(warmup_runs, runs)
               /\ pc' = "csv"
               /\ UNCHANGED <<warmup_runs, is_warmup>>
    /\ i' = 0
    /\ runs' = <<>>
    /\ UNCHANGED <<config, t1, fpc, exc, clock, fs, stdout, mark, ghosts, driver>>

\* t2 = time.perf_counter() ... print(...) after fun returned
Record ==
    LET d == clock - t1 IN
    /\ runs' = Append(runs, RunRecord(d))
    /\ log' = Append(log, <<is_warmup, d>>)
    /\ stdout' = IF verbose THEN Append(stdout, VerboseLine(d)) ELSE stdout
    /\ i' = i + 1
    /\ pc' = "loop"
    /\ fpc' = "returned"

\* time passes while fun runs
Tick ==
    /\ pc = "fun"
    /\ clock < MaxClock
    /\ clock' = clock + 1
    /\ UNCHANGED <<config, pc, locals, fpc, exc, fs, stdout, mark, ghosts, driver>>

FunReturn ==
    /\ pc = "fun"
    /\ Record
    /\ UNCHANGED <<config, is_warmup, warmup_runs, execution_runs, all_runs, t1,
                   exc, clock, fs, mark, started, opens, invocations, driver>>

\* fun raises: nothing in wrapper catches it
FunRaiseSwallowed ==
    /\ pc = "fun"
    /\ pc' = "loop"
    /\ i' = i + 1
    /\ fpc' = "returned"
    /\ UNCHANGED <<config, is_warmup, runs, warmup_runs, execution_runs, all_runs,
                   t1, exc, clock, fs, stdout, mark, ghosts, driver>>
FunRaise ==
    /\ pc = "fun"
    /\ pc' = "raised"
    /\ exc' = "fun"
    /\ fpc' = "raised"
    /\ UNCHANGED <<config, locals, clock, fs, stdout, mark, ghosts, driver>>

\* lines 50-55, no error
WriteCsv ==
    /\ pc = "csv"
    /\ IF csv_file # None
          THEN /\ opens' = opens + 1
               /\ fs' = [fs EXCEPT ![csv_file] =
                            File(OpenW(fs[csv_file]) \o CsvLines(all_runs))]
          ELSE UNCHANGED <<opens, fs>>
    /\ pc' = "stats"
    /\ UNCHANGED <<config, locals, fpc, exc, clock, stdout, mark, started, log,
                   invocations, driver>>

\* open(csv_file, 'w') raises OSError
CsvOpenFailsRetried ==
    /\ pc = "csv"
    /\ csv_file # None
    /\ opens' = opens + 1
    /\ UNCHANGED <<config, pc, locals, fpc, exc, clock, fs, stdout, mark, started,
                   log, invocations, driver>>
CsvOpenFails ==
    /\ pc = "csv"
    /\ csv_file # None
    /\ opens' = opens + 1
    /\ pc' = "raised"
    /\ exc' = "OSError"
    /\ UNCHANGED <<config, locals, fpc, clock, fs, stdout, mark, started, log,
                   invocations, driver>>

\* a write (or the flush on close) raises OSError: a prefix reached the file
CsvWriteFails ==
    /\ pc = "csv"
    /\ csv_file # None
    /\ opens' = opens + 1
    /\ \E n \in 0..Len(all_runs) :
          fs' = [fs EXCEPT ![csv_file] =
                    File(OpenW(fs[csv_file]) \o SubSeq(CsvLines(all_runs), 1, n))]
    /\ pc' = "raised"
    /\ exc' = "OSError"
    /\ UNCHANGED <<config, locals, fpc, clock, stdout, mark, started, log,
                   invocations, driver>>

\* lines 59-67
Stats ==
    /\ pc = "stats"
    /\ stdout' = stdout \o Table.lines
    /\ IF Table.fault
          THEN pc' = "raised" /\ exc' = "StatisticsError"
          ELSE pc' = "done" /\ exc' = exc
    /\ UNCHANGED <<config, locals, fpc, clock, fs, mark, ghosts, driver>>

----------------------------------------------------------------------------
(* test: the driver *)
\* (n_threads, n_runs) of the four calls of run_threaded, lines 101-107
ConfigsSkewed == <<<<1, 16>>, <<2, 8>>, <<4, 4>>, <<8, 4>>>>
Configs == <<<<1, 16>>, <<2, 8>>, <<4, 4>>, <<8, 2>>>>

NThreads == Configs[cfg][1]
NRuns(c) == Configs[c][2]

\* f"f_{n_threads}_{n_runs}.csv"
CsvNameShared(n_threads, n_runs) == <<"f_", Str(1), "_", Str(16), ".csv">>
CsvName(n_threads, n_runs) == <<"f_", Str(n_threads), "_", Str(n_runs), ".csv">>

DriverPaths == {CsvName(Configs[c][1], Configs[c][2]) : c \in 1..Len(Configs)}

Banner(n_threads, n_runs) == <<"Testing the function", Str(n_threads), Str(n_runs)>>

\* the Thread objects of the running experiment are the last NThreads of threads
Base == Len(threads) - NThreads

Alive(t) == t.st = "running"

\* print(...); run_threaded(n_threads=.., n_runs=..)()
RunThreaded ==
    /\ test_pc = "running"
    /\ pc \in {"idle", "done"}
    /\ cfg < Len(Configs)
    /\ cfg' = cfg + 1
    /\ LET n_threads == Configs[cfg + 1][1]
           n_runs == Configs[cfg + 1][2]
       IN /\ stdout' = Append(stdout, Banner(n_threads, n_runs))
          /\ warmups' = 0
          /\ iter' = test_iterations
          /\ verbose' = TRUE
          /\ csv_file' = CsvName(n_threads, n_runs)
          /\ cfg_log' = Append(cfg_log, <<n_threads, n_runs>>)
    /\ Enter
    /\ cfg_calls' = 0
    /\ cfg_raised' = FALSE
    /\ UNCHANGED <<clock, fs, test_pc, test_iterations, f_raises, threads, k, j, exp_raised>>

\* threads = [Thread(target=repeat_function) for _ in range(n_threads)]
\* Threads of an earlier call that still run keep running; the others are gone.
Spawn ==
    /\ pc = "fun"
    /\ fpc = "body"
    /\ threads' = SelectSeq(threads, Alive) \o
                  [x \in 1..NThreads |->
                      [cfg |-> cfg, rep |-> i + 1, st |-> "new", calls |-> 0]]
    /\ k' = 0
    /\ j' = 0
    /\ exp_raised' = FALSE
    /\ fpc' = "start"
    /\ UNCHANGED <<config, pc, locals, exc, clock, fs, stdout, mark, ghosts,
                   test_pc, test_iterations, f_raises, cfg, cfg_calls, cfg_raised, cfg_log>>

\* for t in threads: t.start()
StartThread ==
    /\ fpc = "start"
    /\ k < NThreads
    /\ threads' = [threads EXCEPT ![Base + k + 1].st = "running"]
    /\ k' = k + 1
    /\ fpc' = IF k + 1 = NThreads THEN "join" ELSE "start"
    /\ UNCHANGED <<config, pc, locals, exc, clock, fs, stdout, mark, ghosts,
                   test_pc, test_iterations, f_raises, cfg, j, cfg_calls, exp_raised,
                   cfg_raised, cfg_log>>

\* t.join() returns once t has terminated
JoinableAlways(t) == TRUE
Joinable(t) == t.st = "finished"

\* for t in threads: t.join()
JoinThread ==
    /\ fpc = "join"
    /\ j < NThreads
    /\ Joinable(threads[Base + j + 1])
    /\ j' = j + 1
    /\ UNCHANGED <<config, pc, locals, fpc, exc, clock, fs, stdout, mark, ghosts,
                   test_pc, test_iterations, f_raises, cfg, threads, k, cfg_calls,
                   exp_raised, cfg_raised, cfg_log>>

\* experiment returns to line 36
ExperimentReturn ==
    /\ pc = "fun"
    /\ fpc = "join"
    /\ j = NThreads
    /\ Record
    /\ UNCHANGED <<config, is_warmup, warmup_runs, execution_runs, all_runs, t1,
                   exc, clock, fs, mark, started, opens, invocations, driver>>

\* for _ in range(n_runs): the loop of repeat_function ends after n_runs calls
LastCallOneMore(t) == t.calls + 1 = NRuns(t.cfg) + 1
LastCall(t) == t.calls + 1 = NRuns(t.cfg)

\* The workload either returns on every call or raises on every call.
\* a worker calls f() and f returns; after the last call its thread terminates
WorkerCallReturns(w) ==
    /\ w \in 1..Len(threads)
    /\ threads[w].st = "running"
    /\ ~f_raises
    /\ threads' = [threads EXCEPT ![w].calls = @ + 1,
                                  ![w].st = IF LastCall(threads[w])
                                               THEN "finished" ELSE "running"]
    /\ cfg_calls' = IF threads[w].cfg = cfg THEN cfg_calls + 1 ELSE cfg_calls
    /\ UNCHANGED <<config, pc, locals, fpc, exc, clock, fs, stdout, mark, ghosts,
                   test_pc, test_iterations, f_raises, cfg, k, j, exp_raised, cfg_raised,
                   cfg_log>>

\* a worker calls f() and f raises: the exception ends the thread
\* (threading reports it on stderr), nothing reaches the joining thread
WorkerCallRaises(w) ==
    /\ w \in 1..Len(threads)
    /\ threads[w].st = "running"
    /\ f_raises
    /\ threads' = [threads EXCEPT ![w].calls = @ + 1, ![w].st = "finished"]
    /\ cfg_calls' = IF threads[w].cfg = cfg THEN cfg_calls + 1 ELSE cfg_calls
    /\ exp_raised' = (exp_raised \/ (threads[w].cfg = cfg /\ threads[w].rep = i + 1))
    /\ cfg_raised' = (cfg_raised \/ threads[w].cfg = cfg)
    /\ UNCHANGED <<config, pc, locals, fpc, exc, clock, fs, stdout, mark, ghosts,
                   test_pc, test_iterations, f_raises, cfg, k, j, cfg_log>>

\* line 107 returned: test returns
TestReturn ==
    /\ test_pc = "running"
    /\ cfg = Len(Configs)
    /\ pc = "done"
    /\ test_pc' = "returned"
    /\ UNCHANGED <<config, pc, locals, fpc, exc, clock, fs, stdout, mark, ghosts,
                   test_iterations, f_raises, cfg, threads, k, j, cfg_calls, exp_raised,
                   cfg_raised, cfg_log>>

\* an exception of a decorated experiment leaves test
TestRaise ==
    /\ test_pc = "running"
    /\ pc = "raised"
    /\ test_pc' = "raised"
    /\ UNCHANGED <<config, pc, locals, fpc, exc, clock, fs, stdout, mark, ghosts,
                   test_iterations, f_raises, cfg, threads, k, j, cfg_calls, exp_raised,
                   cfg_raised, cfg_log>>

----------------------------------------------------------------------------
(* Spec: one decorated callable, called up to MaxInvocations times *)
InitWrapper ==
    /\ pc = "idle"
    /\ is_warmup = TRUE
    /\ i = 0
    /\ runs = <<>>
    /\ warmup_runs = <<>>
    /\ execution_runs = <<>>
    /\ all_runs = <<>>
    /\ t1 = 0
    /\ fpc = "none"
    /\ exc = "none"
    /\ clock = 0
    /\ stdout = <<>>
    /\ mark = 0
    /\ started = 0
    /\ opens = 0
    /\ log = <<>>
    /\ invocations = 0
    /\ cfg = 0
    /\ threads = <<>>
    /\ k = 0
    /\ j = 0
    /\ cfg_calls = 0
    /\ exp_raised = FALSE
    /\ cfg_raised = FALSE
    /\ cfg_log = <<>>

Init ==
    /\ warmups \in 0..MaxWarmups
    /\ iter \in 0..MaxIter
    /\ verbose \in BOOLEAN
    /\ csv_file \in {None, OutPath}
    /\ fs \in [{OutPath} -> PriorFiles]
    /\ test_pc = "unused"
    /\ test_iterations = 0
    /\ f_raises = FALSE
    /\ InitWrapper

Next ==
    \/ Invoke
    \/ LoopNext
    \/ LoopEnd
    \/ Tick
    \/ FunReturn
    \/ FunRaise
    \/ WriteCsv
    \/ CsvOpenFails
    \/ CsvWriteFails
    \/ Stats

Spec == Init /\ [][Next]_vars

----------------------------------------------------------------------------
(* DriverSpec: test(f, test_iterations).  The timer readings do not steer  *)
(* the driver, so its clock stands still.                                  *)
DriverInit ==
    /\ warmups = 0
    /\ iter = 0
    /\ verbose = FALSE
    /\ csv_file = None
    /\ fs = [p \in DriverPaths |-> NoFile]
    /\ test_pc = "running"
    /\ test_iterations \in 0..MaxTestIter
    /\ f_raises \in BOOLEAN
    /\ InitWrapper

DriverNext ==
    \/ RunThreaded
    \/ LoopNext
    \/ LoopEnd
    \/ Spawn
    \/ StartThread
    \/ \E w \in 1..Len(threads) : WorkerCallReturns(w)
    \/ \E w \in 1..Len(threads) : WorkerCallRaises(w)
    \/ JoinThread
    \/ ExperimentReturn
    \/ WriteCsv
    \/ CsvOpenFails
    \/ CsvWriteFails
    \/ Stats
    \/ TestReturn
    \/ TestRaise

DriverSpec == DriverInit /\ [][DriverNext]_vars

----------------------------------------------------------------------------
(* Properties of wrapper, checked under Spec *)

\* both calls of start_runs have returned
PhasesDone == pc \in {"csv", "stats", "done"} \/ (pc = "raised" /\ exc # "fun")

\* the lines of the statistics table printed by the current invocation
TableHeaders == {n \in (mark + 1)..Len(stdout) : stdout[n][1] = "is_warmup"}
TableRows(w) == {n \in (mark + 1)..Len(stdout) : stdout[n][1] = StrBool(w)}
NoTable == TableHeaders = {} /\ TableRows(TRUE) = {} /\ TableRows(FALSE) = {}

\* C1: when the wrapped callable never raises, an invocation produces exactly
\* warmups + iter run records; the first warmups are marked is_warmup = True
\* and numbered 1..warmups, the remaining iter are marked False and numbered
\* 1..iter.
C1_RunRecords ==
    PhasesDone =>
        /\ Len(all_runs) = warmups + iter
        /\ \A n \in 1..warmups :
              all_runs[n][1] = n /\ all_runs[n][2] = TRUE
        /\ \A n \in 1..iter :
              all_runs[warmups + n][1] = n /\ all_runs[warmups + n][2] = FALSE

C1_Witness ==
    /\ pc = "done"
    /\ warmups = 2
    /\ iter = 3
    /\ Len(all_runs) = 5
    /\ all_runs[3][1] = 1

\* C2: after a successful invocation with an output path the file holds
\* exactly 1 + warmups + iter lines: the header first, then one row per
\* execution, warmup rows before measured rows, in the order of execution.
C2_CsvFile ==
    (pc \in {"stats", "done"} /\ csv_file # None) =>
        LET f == fs[csv_file] IN
        /\ f.exists
        /\ Len(f.lines) = 1 + warmups + iter
        /\ Len(log) = warmups + iter
        /\ f.lines[1] = <<"run num", "is warmup", "timing">>
        /\ \A n \in 1..warmups :
              /\ log[n][1] = TRUE
              /\ f.lines[1 + n] = <<Str(n), "True", Str(log[n][2])>>
        /\ \A n \in 1..iter :
              /\ log[warmups + n][1] = FALSE
              /\ f.lines[1 + warmups + n] =
                     <<Str(n), "False", Str(log[warmups + n][2])>>

C2_Witness ==
    /\ pc = "done"
    /\ csv_file # None
    /\ warmups = 1
    /\ iter = 2
    /\ Len(fs[csv_file].lines) = 4
    /\ log[1][2] # log[2][2]
    /\ log[2][2] # log[3][2]

\* C3: an invocation overwrites the file: whatever the file held before and
\* however many invocations came before, after a successful invocation the
\* file has 1 + warmups + iter lines, none of them a line of the earlier
\* content, every row carrying a timing of the current invocation.
C3_Overwrite ==
    (pc = "done" /\ csv_file # None) =>
        LET ls == fs[csv_file].lines IN
        /\ Len(ls) = 1 + warmups + iter
        /\ \A n \in 1..Len(ls) : ls[n] # StaleLine
        /\ Cardinality({n \in 1..Len(ls) : ls[n][1] = "run num"}) = 1
        /\ \A n \in 2..Len(ls) : ls[n][3] = Str(log[n - 1][2])

C3_Witness ==
    /\ pc = "done"
    /\ csv_file # None
    /\ invocations = MaxInvocations
    /\ Len(fs[csv_file].lines) = 3
    /\ clock > 0

\* C4: the table has a row for a phase exactly when the phase has at least
\* two records (warmup row iff warmups >= 2, measured row iff iter >= 2),
\* and statistics never fault, so the wrapper completes for iter = 0 and 1.
C4_TableRows ==
    /\ exc # "StatisticsError"
    /\ pc = "stats" => ~Table.fault
    /\ pc = "done" =>
          /\ Cardinality(TableHeaders) = 1
          /\ Cardinality(TableRows(TRUE)) = (IF warmups >= 2 THEN 1 ELSE 0)
          /\ Cardinality(TableRows(FALSE)) = (IF iter >= 2 THEN 1 ELSE 0)
          /\ \A n \in TableRows(TRUE) : stdout[n][2] = Str(warmups)
          /\ \A n \in TableRows(FALSE) : stdout[n][2] = Str(iter)

C4_Witness ==
    /\ pc = "done"
    /\ warmups = 1
    /\ iter = 3
    /\ TableRows(TRUE) = {}
    /\ TableRows(FALSE) # {}

\* C7: when the k-th execution raises, the exception leaves the wrapper:
\* k executions were started and none follows, the failed execution has no
\* record, the file is not opened and no table line is printed; the file and
\* the table are reached only when every started execution returned.
C7_Transparent ==
    /\ fpc = "raised" =>
          /\ pc = "raised"
          /\ exc = "fun"
          /\ Len(log) = started - 1
          /\ Len(warmup_runs) + Len(runs) = started - 1
          /\ opens = 0
          /\ NoTable
    /\ pc \in {"csv", "stats", "done"} => Len(log) = started

C7_Witness ==
    /\ pc = "raised"
    /\ exc = "fun"
    /\ warmups = 2
    /\ started = 3
    /\ csv_file # None

\* C8: the callable is executed warmups + iter times, one record per
\* execution, warmup executions before measured ones: a measured execution
\* starts only after the last warmup execution finished, and the file and the
\* table come only after the last measured execution finished.
C8_Order ==
    /\ started <= warmups + iter
    /\ Len(log) <= started
    /\ started <= Len(log) + 1
    /\ \A n \in 1..Len(log) : log[n][1] = (n <= warmups)
    /\ (pc = "fun" /\ started > warmups) =>
          (~is_warmup /\ Len(log) >= warmups /\ Len(warmup_runs) = warmups)
    /\ (pc = "fun" /\ started <= warmups) => is_warmup
    /\ (opens > 0 \/ ~NoTable) =>
          (started = warmups + iter /\ Len(log) = warmups + iter)
    /\ pc = "done" => (started = warmups + iter /\ Len(log) = started)

C8_Witness ==
    /\ pc = "fun"
    /\ ~is_warmup
    /\ warmups = 2
    /\ iter = 1
    /\ started = 3

\* C9: an error of the file system on the output path leaves the wrapper
\* after all warmups + iter executions, with one attempt on the file and no
\* line of the statistics table.
C9_FileError ==
    /\ opens <= 1
    /\ exc = "OSError" =>
          /\ pc = "raised"
          /\ started = warmups + iter
          /\ Len(log) = warmups + iter
          /\ opens = 1
          /\ NoTable

C9_Witness ==
    /\ exc = "OSError"
    /\ pc = "raised"
    /\ warmups = 1
    /\ iter = 2
    /\ Len(fs[csv_file].lines) = 2

----------------------------------------------------------------------------
(* Properties of test, checked under DriverSpec *)

\* experiment has just returned to start_runs (i already counts this run)
Returned == fpc = "returned" /\ pc = "loop" /\ i > 0

Current(t) == t.cfg = cfg /\ t.rep = (IF Returned THEN i ELSE i + 1)

\* calls of f begun by the workers of the current invocation of experiment
ExpCalls ==
    SumSeq([x \in 1..Len(threads) |->
               IF Current(threads[x]) THEN threads[x].calls ELSE 0])

Live == {x \in 1..Len(threads) : threads[x].st = "running"}

ConfigDone == test_pc \in {"running", "returned"} /\ cfg >= 1 /\ pc = "done"

C10_NoOverlap ==
    /\ \A x \in Live :
          /\ pc = "fun"
          /\ threads[x].cfg = cfg
          /\ threads[x].rep = i + 1
    /\ Live # {} => (Cardinality(Live) <= NThreads /\ Cardinality(Live) <= 8)
    /\ (fpc = "body" \/ (fpc = "start" /\ k = 0)) => Live = {}
    /\ cfg_log = SubSeq(<<<<1, 16>>, <<2, 8>>, <<4, 4>>, <<8, 2>>>>, 1, cfg)
    /\ \A c \in 1..4 :
          LET name == <<<<"f_", "1", "_", "16", ".csv">>,
                        <<"f_", "2", "_", "8", ".csv">>,
                        <<"f_", "4", "_", "4", ".csv">>,
                        <<"f_", "8", "_", "2", ".csv">>>>[c]
          IN /\ fs[name].exists => c <= cfg
             /\ (c < cfg \/ (c = cfg /\ pc \in {"stats", "done"})) =>
                   (fs[name].exists /\ Len(fs[name].lines) = 1 + test_iterations)

C10_Witness ==
    /\ cfg = 4
    /\ i = 1
    /\ Cardinality(Live) = 8
    /\ fs[<<"f_", "4", "_", "4", ".csv">>].exists

====
